---- MODULE Spec2Model ----
(***************************************************************************)
(* The pill counter's capture -> validate -> detect -> annotate pipeline:  *)
(* App (handleImageCapture, handleRetake), imageProcessing.js              *)
(* (validateAndCompressImage, callRoboflowAPI, processAndDisplayImage,     *)
(* getErrorMessage) in its two versions (src/src, the Roboflow build the   *)
(* App imports, and src/files, the earlier bundle with the mock detector), *)
(* and the IMG-based ResultsDisplay.                                       *)
(*                                                                         *)
(* One action is one browser task: an event handler or a callback together *)
(* with the promise continuations (microtasks) it resumes, followed by the *)
(* React commit of the state it set.  JavaScript numbers are modelled as   *)
(* exact rationals <<numerator, denominator>>, except where Math.floor      *)
(* makes the rounding of a binary64 operation visible: the canvas sizes    *)
(* are computed in binary64.                                               *)
(***************************************************************************)
EXTENDS Integers, Sequences, FiniteSets, TLC

----------------------------------------------------------------------------
(* Bounds of the model *)

\* handleImageCapture / harness invocations per behaviour
MaxRuns == 2
\* length of the enumerated predictions lists of a service response
MaxPreds == 2
\* revokeObjectURL calls counted per URL before the environment stops
\* re-invoking a stale handler
MaxReleases == 2
\* presses of the Share button per behaviour
MaxShares == 2

----------------------------------------------------------------------------
(* Numbers *)

RECURSIVE GCD(_, _)
GCD(a, b) == IF b = 0 THEN a ELSE GCD(b, a % b)

Abs(a) == IF a < 0 THEN -a ELSE a

\* the rational n/d in lowest terms with a positive denominator
Rat(n, d) ==
    LET g == GCD(Abs(n), Abs(d))
        s == IF d < 0 THEN -1 ELSE 1
    IN  << (s * n) \div g, (s * d) \div g >>

Num(n) == << n, 1 >>

RAdd(a, b) == Rat(a[1] * b[2] + b[1] * a[2], a[2] * b[2])
RSub(a, b) == Rat(a[1] * b[2] - b[1] * a[2], a[2] * b[2])
\* the product, with common factors taken out before multiplying
RMul(a, b) ==
    LET g1 == GCD(Abs(a[1]), b[2])
        g2 == GCD(Abs(b[1]), a[2])
    IN  Rat((a[1] \div g1) * (b[1] \div g2), (a[2] \div g2) * (b[2] \div g1))
RDiv(a, b) == RMul(a, Rat(b[2], b[1]))
RLeq(a, b) == a[1] * b[2] <= b[1] * a[2]
RLt(a, b) == a[1] * b[2] < b[1] * a[2]
RGeq(a, b) == RLeq(b, a)
RMin(a, b) == IF RLeq(a, b) THEN a ELSE b
\* Math.floor
Floor(a) == a[1] \div a[2]

----------------------------------------------------------------------------
\* bits of a binary64 significand
Precision == 53
\* bits of one limb, and limbs of a quotient computed below the point
LimbBits == 13
FractionLimbs == 6

(* IEEE 754 binary64, for the positive values the size computations meet:  *)
(* sig is the 53-bit significand, most significant bit first (sig[1] = 1), *)
(* and the value is sig * 2^exp.  Division and multiplication round to     *)
(* nearest, ties to even, as the JavaScript operators / and * do.  Long    *)
(* numbers are handled in limbs of 13 bits.                                *)

RECURSIVE Pow2(_)
Pow2(n) == IF n = 0 THEN 1 ELSE 2 * Pow2(n - 1)

\* the bits of a sequence of limbs, most significant first
BitsOfLimbs(limbs) ==
    [ i \in 1..(LimbBits * Len(limbs)) |->
        (limbs[((i - 1) \div LimbBits) + 1]
            \div Pow2(LimbBits - 1 - ((i - 1) % LimbBits))) % 2 ]

RECURSIVE NatOf(_)
NatOf(bits) ==
    IF bits = << >> THEN 0
    ELSE 2 * NatOf(SubSeq(bits, 1, Len(bits) - 1)) + bits[Len(bits)]

\* the limbs of a sequence of bits, most significant first
LimbsOfBits(bits) ==
    LET n == (Len(bits) + LimbBits - 1) \div LimbBits
        pad == n * LimbBits - Len(bits)
        padded == [ i \in 1..pad |-> 0 ] \o bits
    IN  [ k \in 1..n |-> NatOf(SubSeq(padded, (k - 1) * LimbBits + 1, k * LimbBits)) ]

\* a sequence of bits without its leading zeros (bits holds a 1)
Normalized(bits) ==
    LET first == CHOOSE i \in 1..Len(bits) :
                     bits[i] = 1 /\ \A j \in 1..(i - 1) : bits[j] = 0
    IN  SubSeq(bits, first, Len(bits))

\* bits + 1; a carry out of the top bit lengthens the sequence by one
Increment(bits) ==
    LET zeros == { i \in 1..Len(bits) : bits[i] = 0 }
        last == IF zeros = {} THEN 0
                ELSE CHOOSE i \in zeros : \A j \in zeros : j <= i
    IN  IF last = 0 THEN << 1 >> \o [ i \in 1..Len(bits) |-> 0 ]
        ELSE [ i \in 1..Len(bits) |->
                 IF i < last THEN bits[i] ELSE IF i = last THEN 1 ELSE 0 ]

\* the integer bits (bits[1] = 1) times 2^exp, plus a part below it if
\* sticky, rounded to Precision bits: to nearest, ties to even
RoundToDouble(bits, exp, sticky) ==
    LET n == Len(bits)
    IN  IF n <= Precision
        THEN [ sig |-> bits \o [ i \in 1..(Precision - n) |-> 0 ],
               exp |-> exp - (Precision - n) ]
        ELSE LET kept == SubSeq(bits, 1, Precision)
                 guard == bits[Precision + 1]
                 rest == sticky \/ \E i \in (Precision + 2)..n : bits[i] = 1
                 up == guard = 1 /\ (rest \/ kept[Precision] = 1)
                 rounded == IF up THEN Increment(kept) ELSE kept
             IN  IF Len(rounded) > Precision
                 THEN [ sig |-> SubSeq(rounded, 1, Precision),
                        exp |-> exp + (n - Precision) + 1 ]
                 ELSE [ sig |-> rounded, exp |-> exp + (n - Precision) ]

\* n limbs of r / d below the point (r < d < 2^13), and the remainder
RECURSIVE QuotientLimbs(_, _, _)
QuotientLimbs(r, d, n) ==
    IF n = 0 THEN [ limbs |-> << >>, rem |-> r ]
    ELSE LET next == QuotientLimbs((r * Pow2(LimbBits)) % d, d, n - 1)
         IN  [ limbs |-> << (r * Pow2(LimbBits)) \div d >> \o next.limbs,
               rem |-> next.rem ]

\* a / b for integers 1 <= a, b < 2^13
FDiv(a, b) ==
    LET q == QuotientLimbs(a % b, b, FractionLimbs)
        bits == BitsOfLimbs(<< a \div b >> \o q.limbs)
    IN  RoundToDouble(Normalized(bits), -(LimbBits * FractionLimbs), q.rem # 0)

\* the limbs of w * limbs
RECURSIVE TimesLimbs(_, _, _)
TimesLimbs(w, limbs, carry) ==
    IF limbs = << >> THEN << carry >>
    ELSE LET low == limbs[Len(limbs)] * w + carry
         IN  TimesLimbs(w, SubSeq(limbs, 1, Len(limbs) - 1), low \div Pow2(LimbBits))
                 \o << low % Pow2(LimbBits) >>

\* w * d for an integer 1 <= w < 2^13 and a double d
FMulInt(w, d) ==
    RoundToDouble(Normalized(BitsOfLimbs(TimesLimbs(w, LimbsOfBits(d.sig), 0))),
                  d.exp, FALSE)

\* the double 1
FOne == [ sig |-> [ i \in 1..Precision |-> IF i = 1 THEN 1 ELSE 0 ], exp |-> 1 - Precision ]

FLeq(c, d) ==
    \/ c.exp < d.exp
    \/ /\ c.exp = d.exp
       /\ \/ c.sig = d.sig
          \/ \E i \in 1..Precision :
                /\ c.sig[i] < d.sig[i]
                /\ \A j \in 1..(i - 1) : c.sig[j] = d.sig[j]

\* Math.min
FMin(c, d) == IF FLeq(c, d) THEN c ELSE d

\* Math.floor of a double below 2^13
FFloor(d) ==
    IF Precision + d.exp <= 0 THEN 0
    ELSE NatOf(SubSeq(d.sig, 1, Precision + d.exp))

----------------------------------------------------------------------------
(* Text: error messages are character sequences, so that String.includes   *)
(* and toLowerCase are computed and not assumed.                           *)

\* 'Image file is too large. Please try a closer photo or reduce image quality in camera settings.'
TooLargeError ==
    << "I", "m", "a", "g", "e", " ", "f", "i", "l", "e", " ", "i", "s", " ", "t", "o",
       "o", " ", "l", "a", "r", "g", "e", ".", " ", "P", "l", "e", "a", "s", "e", " ",
       "t", "r", "y", " ", "a", " ", "c", "l", "o", "s", "e", "r", " ", "p", "h", "o",
       "t", "o", " ", "o", "r", " ", "r", "e", "d", "u", "c", "e", " ", "i", "m", "a",
       "g", "e", " ", "q", "u", "a", "l", "i", "t", "y", " ", "i", "n", " ", "c", "a",
       "m", "e", "r", "a", " ", "s", "e", "t", "t", "i", "n", "g", "s", "." >>

\* 'Image loading timed out. Please try a smaller image.'
ValidatorTimeoutError ==
    << "I", "m", "a", "g", "e", " ", "l", "o", "a", "d", "i", "n", "g", " ", "t", "i",
       "m", "e", "d", " ", "o", "u", "t", ".", " ", "P", "l", "e", "a", "s", "e", " ",
       "t", "r", "y", " ", "a", " ", "s", "m", "a", "l", "l", "e", "r", " ", "i", "m",
       "a", "g", "e", "." >>

\* 'Failed to compress image'
CompressError ==
    << "F", "a", "i", "l", "e", "d", " ", "t", "o", " ", "c", "o", "m", "p", "r", "e",
       "s", "s", " ", "i", "m", "a", "g", "e" >>

\* 'Failed to load image. Please try again.'
ValidatorLoadError ==
    << "F", "a", "i", "l", "e", "d", " ", "t", "o", " ", "l", "o", "a", "d", " ", "i",
       "m", "a", "g", "e", ".", " ", "P", "l", "e", "a", "s", "e", " ", "t", "r", "y",
       " ", "a", "g", "a", "i", "n", "." >>

\* 'Failed to read file'
ReadFileError ==
    << "F", "a", "i", "l", "e", "d", " ", "t", "o", " ", "r", "e", "a", "d", " ", "f",
       "i", "l", "e" >>

\* 'Failed to analyze image. Please try again.'
AnalyzeError ==
    << "F", "a", "i", "l", "e", "d", " ", "t", "o", " ", "a", "n", "a", "l", "y", "z",
       "e", " ", "i", "m", "a", "g", "e", ".", " ", "P", "l", "e", "a", "s", "e", " ",
       "t", "r", "y", " ", "a", "g", "a", "i", "n", "." >>

\* 'Failed to load image'
LoadError ==
    << "F", "a", "i", "l", "e", "d", " ", "t", "o", " ", "l", "o", "a", "d", " ", "i",
       "m", "a", "g", "e" >>

\* 'Image loading timeout'
LoadTimeoutError ==
    << "I", "m", "a", "g", "e", " ", "l", "o", "a", "d", "i", "n", "g", " ", "t", "i",
       "m", "e", "o", "u", "t" >>

\* 'too large'
KeyTooLarge ==
    << "t", "o", "o", " ", "l", "a", "r", "g", "e" >>

\* 'timeout'
KeyTimeout ==
    << "t", "i", "m", "e", "o", "u", "t" >>

\* 'failed to load'
KeyFailedToLoad ==
    << "f", "a", "i", "l", "e", "d", " ", "t", "o", " ", "l", "o", "a", "d" >>

\* 'out of memory'
KeyOutOfMemory ==
    << "o", "u", "t", " ", "o", "f", " ", "m", "e", "m", "o", "r", "y" >>

\* 'api request failed'
KeyApiRequestFailed ==
    << "a", "p", "i", " ", "r", "e", "q", "u", "e", "s", "t", " ", "f", "a", "i", "l",
       "e", "d" >>

\* 'failed to analyze'
KeyFailedToAnalyze ==
    << "f", "a", "i", "l", "e", "d", " ", "t", "o", " ", "a", "n", "a", "l", "y", "z",
       "e" >>

UpperCase ==
    << "A", "B", "C", "D", "E", "F", "G", "H", "I", "J", "K", "L", "M",
       "N", "O", "P", "Q", "R", "S", "T", "U", "V", "W", "X", "Y", "Z" >>
LowerCase ==
    << "a", "b", "c", "d", "e", "f", "g", "h", "i", "j", "k", "l", "m",
       "n", "o", "p", "q", "r", "s", "t", "u", "v", "w", "x", "y", "z" >>

\* String.prototype.toLowerCase
ToLowerCase(s) ==
    [ i \in 1..Len(s) |->
        IF \E k \in 1..Len(UpperCase) : UpperCase[k] = s[i]
        THEN LowerCase[CHOOSE k \in 1..Len(UpperCase) : UpperCase[k] = s[i]]
        ELSE s[i] ]

\* String.prototype.includes
Includes(text, key) ==
    \E i \in 0..(Len(text) - Len(key)) :
        \A j \in 1..Len(key) : text[i + j] = key[j]

\* The Error objects the pipeline throws, by name; Message gives error.message.
Errors ==
    { "TooLargeError", "ValidatorTimeoutError", "CompressError",
      "ValidatorLoadError", "ReadFileError", "AnalyzeError", "LoadError",
      "LoadTimeoutError" }

NoError == "null"

Message(e) ==
    CASE e = "TooLargeError" -> TooLargeError
      [] e = "ValidatorTimeoutError" -> ValidatorTimeoutError
      [] e = "CompressError" -> CompressError
      [] e = "ValidatorLoadError" -> ValidatorLoadError
      [] e = "ReadFileError" -> ReadFileError
      [] e = "AnalyzeError" -> AnalyzeError
      [] e = "LoadError" -> LoadError
      [] e = "LoadTimeoutError" -> LoadTimeoutError

\* the errorMessages table, in insertion order (Object.entries order)
errorMessages(version) ==
    << << KeyTooLarge, "Image file is too large. Try taking a photo from a closer distance or reduce camera quality settings." >>,
       << KeyTimeout, "Processing took too long. Please try again with a clearer photo." >>,
       << KeyFailedToLoad, "Could not load the image. Please try again." >>,
       << KeyOutOfMemory, "Not enough memory to process this image. Try taking a photo from closer." >> >>
    \o (IF version = "src"
        THEN << << KeyApiRequestFailed, "Could not connect to the detection service. Please check your internet connection." >>,
                << KeyFailedToAnalyze, "Failed to analyze the image. Please try again." >> >>
        ELSE << >>)

GenericMessage == "An error occurred while processing the image. Please try again."

getErrorMessage(version, e) ==
    LET errorText == ToLowerCase(Message(e))
        table == errorMessages(version)
        hits == { k \in 1..Len(table) : Includes(errorText, table[k][1]) }
    IN  IF hits = {} THEN GenericMessage
        ELSE table[CHOOSE k \in hits : \A m \in hits : k <= m][2]

----------------------------------------------------------------------------
(* Program constants *)

\* 0.50
CONFIDENCE_THRESHOLD == Rat(50, 100)
MAX_FILE_SIZE == 10 * 1024 * 1024
MAX_DIMENSION == 4096
maxProcessingDimension == 1024

Versions == { "src", "files" }

----------------------------------------------------------------------------
(* Detections *)

\* the filter written with > : drops a prediction at exactly the threshold
AcceptPredictionStrict(p) == RLt(CONFIDENCE_THRESHOLD, p.confidence)

\* .filter(p => p.confidence >= CONFIDENCE_THRESHOLD)
AcceptPrediction(p) == RGeq(p.confidence, CONFIDENCE_THRESHOLD)

\* the conversion with the whole size subtracted instead of half of it
ConvertPredictionWholeSize(p) ==
    [ x |-> RSub(p.x, p.width),
      y |-> RSub(p.y, p.height),
      width |-> p.width,
      height |-> p.height,
      confidence |-> p.confidence,
      class |-> p.class ]

\* .map(p => ({ x: p.x - p.width / 2, ... })): centre to top-left
\* the conversion with a label of its own instead of the prediction's
ConvertPredictionRelabelled(p) ==
    [ x |-> RSub(p.x, RDiv(p.width, Num(2))),
      y |-> RSub(p.y, RDiv(p.height, Num(2))),
      width |-> p.width,
      height |-> p.height,
      confidence |-> p.confidence,
      class |-> "pill" ]

ConvertPrediction(p) ==
    [ x |-> RSub(p.x, RDiv(p.width, Num(2))),
      y |-> RSub(p.y, RDiv(p.height, Num(2))),
      width |-> p.width,
      height |-> p.height,
      confidence |-> p.confidence,
      class |-> p.class ]

MapSeq(s, Op(_)) == [ i \in 1..Len(s) |-> Op(s[i]) ]

\* A service response: predictions is a sequence, or the response carries
\* none (apiResult?.predictions falsy).
NoPredictions == [ hasPredictions |-> FALSE, predictions |-> << >> ]
Response(preds) == [ hasPredictions |-> TRUE, predictions |-> preds ]

\* let detections = []; if (apiResult?.predictions && Array.isArray(..)) ...
\* the formatting without the confidence filter
FormatDetectionsUnfiltered(apiResult) ==
    IF apiResult.hasPredictions
    THEN MapSeq(apiResult.predictions, ConvertPrediction)
    ELSE << >>

FormatDetections(apiResult) ==
    IF apiResult.hasPredictions
    THEN MapSeq(SelectSeq(apiResult.predictions, AcceptPrediction),
                ConvertPrediction)
    ELSE << >>

\* src/files: const scale = Math.min(max / w, max / h, 1), as the exact
\* number the detections are divided by
ProcessingScale(w, h) ==
    RMin(RMin(Rat(maxProcessingDimension, w), Rat(maxProcessingDimension, h)),
         Num(1))

\* the mapping with the scale applied the wrong way round
ScaleDetectionTimes(d, scale) ==
    [ x |-> RMul(d.x, scale),
      y |-> RMul(d.y, scale),
      width |-> RMul(d.width, scale),
      height |-> RMul(d.height, scale),
      confidence |-> d.confidence ]

\* src/files: detections.map(d => ({ x: d.x / scale, ... })); the mapped
\* object has no class property.
ScaleDetection(d, scale) ==
    [ x |-> RDiv(d.x, scale),
      y |-> RDiv(d.y, scale),
      width |-> RDiv(d.width, scale),
      height |-> RDiv(d.height, scale),
      confidence |-> d.confidence ]

ScaleDetections(ds, scale) == [ i \in 1..Len(ds) |-> ScaleDetection(ds[i], scale) ]

\* the resize with each axis cut to the maximum on its own
ValidatedSizePerAxis(w, h) ==
    << IF w > MAX_DIMENSION THEN MAX_DIMENSION ELSE w,
       IF h > MAX_DIMENSION THEN MAX_DIMENSION ELSE h >>

\* validateAndCompressImage's canvas size for a decoded w x h image
ValidatedSize(w, h) ==
    IF w > MAX_DIMENSION \/ h > MAX_DIMENSION
    THEN LET scale == FMin(FDiv(MAX_DIMENSION, w), FDiv(MAX_DIMENSION, h))
         IN  << FFloor(FMulInt(w, scale)), FFloor(FMulInt(h, scale)) >>
    ELSE << w, h >>

\* src/files: processedCanvas.width, .height = Math.floor(original * scale)
ProcessedSize(w, h) ==
    LET scale == FMin(FMin(FDiv(maxProcessingDimension, w),
                           FDiv(maxProcessingDimension, h)), FOne)
    IN  << FFloor(FMulInt(w, scale)), FFloor(FMulInt(h, scale)) >>

----------------------------------------------------------------------------
(* Inputs *)

\* a file: its byte size, the pixel size it decodes to, and whether its
\* bytes are the captured ones or a canvas encoding
NoFile == [ size |-> 0, width |-> 0, height |-> 0, content |-> "none" ]
Capture(size, w, h) == [ size |-> size, width |-> w, height |-> h, content |-> "captured" ]
\* new File([blob], file.name, { type: 'image/jpeg' }), blob the w x h
\* canvas encoded by toBlob(.., 'image/jpeg', 0.92)
CompressedFile(w, h) == [ size |-> 1, width |-> w, height |-> h, content |-> "reencoded" ]

\* photos offered to the App's inputs
AppCaptures ==
    { Capture(MAX_FILE_SIZE, 3024, 4032), Capture(1024, 5000, 3000),
      Capture(MAX_FILE_SIZE + 1, 3024, 4032) }

\* files handed to validateAndCompressImage / processAndDisplayImage directly
FnCaptures ==
    { Capture(MAX_FILE_SIZE, 640, 480), Capture(MAX_FILE_SIZE + 1, 640, 480),
      Capture(1024, 3024, 4032), Capture(1024, 5000, 3000),
      Capture(1024, 1, 5000), Capture(1024, 1122, 1000),
      Capture(1024, 4237, 3000) }

Prediction(cx, cy, w, h, conf, class) ==
    [ x |-> cx, y |-> cy, width |-> w, height |-> h, confidence |-> conf, class |-> class ]

Confidences == { Num(0), Rat(49, 100), Rat(50, 100), Rat(51, 100), Num(1) }

\* one box with integral halves, one whose half sizes are fractions and
\* whose corner lies outside the image
Predictions ==
    { Prediction(Num(100), Num(200), Num(40), Num(60), c, "pill") : c \in Confidences }
    \cup { Prediction(Rat(5, 2), Num(3), Num(7), Rat(9, 2), c, "capsule") :
             c \in { Rat(49, 100), Rat(50, 100) } }

RECURSIVE SeqsUpTo(_, _)
SeqsUpTo(S, n) ==
    IF n = 0 THEN { << >> }
    ELSE LET shorter == SeqsUpTo(S, n - 1)
         IN  shorter \cup { Append(s, x) : s \in { t \in shorter : Len(t) = n - 1 }, x \in S }

\* the confidences of the ten detections of the documented example
ExampleConfidences ==
    << Rat(9, 10), Rat(4, 10), Rat(5, 10), Rat(51, 100), Num(0), Num(1),
       Rat(49, 100), Rat(6, 10), Rat(3, 10), Rat(8, 10) >>

ExamplePredictions ==
    [ i \in 1..Len(ExampleConfidences) |->
        Prediction(Num(10 * i), Num(20 * i), Num(8), Num(6), ExampleConfidences[i], "pill") ]

FnResponses ==
    { NoPredictions, Response(ExamplePredictions) }
    \cup { Response(s) : s \in SeqsUpTo(Predictions, MaxPreds) }

AppResponses ==
    { NoPredictions,
      Response(<< Prediction(Num(100), Num(200), Num(40), Num(60), Rat(49, 100), "pill"),
                  Prediction(Rat(5, 2), Num(3), Num(7), Rat(9, 2), Rat(50, 100), "capsule") >>) }

\* numPills = Math.floor(Math.random() * 20) + 5
MockCounts == 5..24

----------------------------------------------------------------------------
(* State *)

VARIABLES
    version,    \* which imageProcessing.js is linked: "src" or "files"
    run,        \* the invocations: where each is, its validator and pipeline
    urls,       \* every object URL created: who owns it, how often revoked
    results,    \* App state
    isLoading,  \* App state
    error,      \* App state
    progress,   \* App state: progress.percent
    rd,         \* the mounted ResultsDisplay: state and effect closure
    fx,         \* the Image/canvas pairs ResultsDisplay's effects created
    shr         \* the latest handleShare call of ResultsDisplay

vars == << version, run, urls, results, isLoading, error, progress, rd, fx, shr >>

Runs == 1..MaxRuns

NoResult ==
    [ originalImageUrl |-> 0, originalWidth |-> 0, originalHeight |-> 0,
      detections |-> << >>, pillCount |-> 0 ]

IdleRun ==
    [ caller |-> "none", file |-> NoFile, during |-> {},
      pc |-> "idle", err |-> NoError,
      vurl |-> 0, vimg |-> "none", vtimer |-> "none", vblob |-> "none",
      vcanvas |-> << 0, 0 >>, vcrashed |-> FALSE, vfile |-> NoFile,
      imageFile |-> NoFile, purl |-> 0, pimg |-> "none", ptimer |-> "none",
      scale |-> Num(1), canvas |-> << 0, 0 >>, raw |-> << >>,
      requests |-> 0, caught |-> "none", apiResult |-> NoPredictions, plog |-> << >>,
      shown |-> << >>, renderer |-> "none", ops |-> << >>,
      result |-> NoResult ]

Unmounted ==
    [ mounted |-> FALSE, inst |-> 0, props |-> NoResult, displayImageUrl |-> 0,
      isProcessing |-> TRUE, capturedUrl |-> 0, onRetake |-> NoResult ]

\* no handleShare call so far: calls counts them, url is the
\* displayImageUrl of the handler's closure, downloads counts the
\* handleDownload calls of the latest one, outcome is how that one ended
NoShare ==
    [ pc |-> "idle", calls |-> 0, url |-> 0, downloads |-> 0, outcome |-> "none" ]

\* the variables an operation reads and writes, as one record
Cur ==
    [ run |-> run, urls |-> urls, results |-> results, isLoading |-> isLoading,
      error |-> error, progress |-> progress, rd |-> rd, fx |-> fx, shr |-> shr ]

Becomes(b) ==
    /\ run' = b.run
    /\ urls' = b.urls
    /\ results' = b.results
    /\ isLoading' = b.isLoading
    /\ error' = b.error
    /\ progress' = b.progress
    /\ rd' = b.rd
    /\ fx' = b.fx
    /\ shr' = b.shr
    /\ UNCHANGED version

Terminal == { "done", "failed" }
InFlight(b) == { r \in Runs : b.run[r].pc \notin Terminal \cup { "idle" } }

----------------------------------------------------------------------------
(* Object URLs *)

\* URL.createObjectURL: the new URL is Len(urls) after the call.  retaken
\* records that handleRetake ran on the result that holds the URL.
createObjectURL(b, kind, r) ==
    [ b EXCEPT !.urls = Append(@, [ kind |-> kind, owner |-> r, released |-> 0,
                                    retaken |-> FALSE ]) ]

\* URL.revokeObjectURL, every call counted
revokeObjectURL(b, u) ==
    IF u = 0 THEN b ELSE [ b EXCEPT !.urls[u].released = @ + 1 ]

----------------------------------------------------------------------------
(* ResultsDisplay (IMG solution): the React commit that follows a state    *)
(* change of App.  App renders ResultsDisplay exactly when results is set. *)

\* useEffect body: setIsProcessing(true), a new canvas and Image, and the
\* cleanup closure, which captures this render's displayImageUrl
RunEffect(b) ==
    [ b EXCEPT !.rd.isProcessing = TRUE,
               !.rd.capturedUrl = b.rd.displayImageUrl,
               !.fx = Append(@, [ inst |-> b.rd.inst, props |-> b.rd.props,
                                  img |-> "pending", blob |-> "none",
                                  canvas |-> << 0, 0 >>, ops |-> << >> ]) ]

\* return () => { if (displayImageUrl) URL.revokeObjectURL(displayImageUrl) }
EffectCleanup(b) ==
    IF b.rd.capturedUrl # 0 THEN revokeObjectURL(b, b.rd.capturedUrl) ELSE b

Render(b) ==
    IF b.results = b.rd.props THEN b
    ELSE IF ~b.rd.mounted
    THEN RunEffect([ b EXCEPT !.rd = [ mounted |-> TRUE, inst |-> b.rd.inst + 1,
                                       props |-> b.results, displayImageUrl |-> 0,
                                       isProcessing |-> TRUE, capturedUrl |-> 0,
                                       onRetake |-> b.results ] ])
    ELSE IF b.results = NoResult
    THEN [ EffectCleanup(b) EXCEPT !.rd = [ Unmounted EXCEPT !.inst = b.rd.inst,
                                                             !.onRetake = b.rd.onRetake ] ]
    ELSE RunEffect(EffectCleanup([ b EXCEPT !.rd.props = b.results,
                                            !.rd.onRetake = b.results ]))

\* state setters of an effect's callbacks reach the component only while
\* the instance that ran the effect is mounted
Alive(b, i) == b.rd.mounted /\ b.rd.inst = b.fx[i].inst

\* one call on a 2D context: the method, the part of the annotation it
\* draws, the forEach index of the detection (-1 for the image) and the
\* text drawn, 0 where the call draws none
Op(call, part, index, text) ==
    [ call |-> call, part |-> part, index |-> index, text |-> text ]

ImageOp == Op("drawImage", "image", -1, 0)

\* (detection.confidence * 100).toFixed(0), the digits before the '%'
ConfText(confidence) == Floor(RAdd(RMul(confidence, Num(100)), Rat(1, 2)))

\* if (detection.confidence): a number other than 0
Truthy(confidence) == confidence # Num(0)

RECURSIVE ForEach(_, _)
\* detections.forEach((detection, index) => ..): calls[k] being the calls
\* the callback makes for the k-th detection, all of them in the order of
\* the sequence, from the k-th on
ForEach(calls, k) ==
    IF k > Len(calls) THEN << >>
    ELSE calls[k] \o ForEach(calls, k + 1)

\* the forEach index of the k-th detection
IndexOf(k) == k - 1

\* the canvas-based ResultsDisplay: fill, outline, number on a background
\* patch, and the confidence on a background of its own
drawDetections(detections) ==
    LET body(detection, index) ==
            << Op("fillRect", "fill", index, 0),
               Op("strokeRect", "outline", index, 0),
               Op("fillRect", "patch", index, 0),
               Op("fillText", "number", index, index + 1) >>
            \o (IF Truthy(detection.confidence)
                THEN << Op("fillRect", "confidencePatch", index, 0),
                        Op("fillText", "confidence", index,
                           ConfText(detection.confidence)) >>
                ELSE << >>)
    IN  ForEach([ k \in 1..Len(detections) |-> body(detections[k], IndexOf(k)) ], 1)

\* the IMG-based ResultsDisplay: the image, then per detection fill,
\* outline, number on a background patch
effect_draw(detections) ==
    LET body(detection, index) ==
            << Op("fillRect", "fill", index, 0),
               Op("strokeRect", "outline", index, 0),
               Op("fillRect", "patch", index, 0),
               Op("fillText", "number", index, index + 1) >>
    IN  << ImageOp >>
        \o ForEach([ k \in 1..Len(detections) |-> body(detections[k], IndexOf(k)) ], 1)

\* src/src drawDetectionsOnCanvas: the image, then per detection fill,
\* outline, the number as stroked then filled text, and the confidence
\* likewise
drawDetectionsOnCanvas(detections) ==
    LET body(detection, index) ==
            << Op("fillRect", "fill", index, 0),
               Op("strokeRect", "outline", index, 0),
               Op("strokeText", "numberOutline", index, index + 1),
               Op("fillText", "number", index, index + 1) >>
            \o (IF Truthy(detection.confidence)
                THEN << Op("strokeText", "confidenceOutline", index,
                           ConfText(detection.confidence)),
                        Op("fillText", "confidence", index,
                           ConfText(detection.confidence)) >>
                ELSE << >>)
    IN  << ImageOp >>
        \o ForEach([ k \in 1..Len(detections) |-> body(detections[k], IndexOf(k)) ], 1)

Renderers == { "drawDetections", "effect", "drawDetectionsOnCanvas" }

Drawn(renderer, detections) ==
    CASE renderer = "drawDetections" -> drawDetections(detections)
      [] renderer = "effect" -> effect_draw(detections)
      [] renderer = "drawDetectionsOnCanvas" -> drawDetectionsOnCanvas(detections)

\* img.onload: canvas at originalWidth x originalHeight, draw, toBlob
display_onload(b, i) ==
    [ b EXCEPT !.fx[i].img = "loaded",
               !.fx[i].canvas = << b.fx[i].props.originalWidth,
                                   b.fx[i].props.originalHeight >>,
               !.fx[i].ops = effect_draw(b.fx[i].props.detections),
               !.fx[i].blob = "pending" ]

\* img.onerror: setIsProcessing(false)
display_onerror(b, i) ==
    LET b1 == [ b EXCEPT !.fx[i].img = "errored" ]
    IN  IF Alive(b, i) THEN [ b1 EXCEPT !.rd.isProcessing = FALSE ] ELSE b1

\* canvas.toBlob callback: if (blob) { createObjectURL; setDisplayImageUrl;
\* setIsProcessing(false) }
display_toBlob(b, i, blob) ==
    LET b1 == [ b EXCEPT !.fx[i].blob = "done" ]
        b2 == createObjectURL(b1, "display", i)
    IN  IF ~blob THEN b1
        ELSE IF Alive(b, i)
        THEN [ b2 EXCEPT !.rd.displayImageUrl = Len(b2.urls),
                         !.rd.isProcessing = FALSE ]
        ELSE b2

\* handleDownload: if (!displayImageUrl) return; link.click()
handleDownload(b) == [ b EXCEPT !.shr.downloads = @ + 1 ]

\* handleShare up to its first await: if (!displayImageUrl) return;
\* fetch(displayImageUrl)
handleShare(b) ==
    IF b.rd.displayImageUrl = 0
    THEN [ b EXCEPT !.shr = [ pc |-> "done", calls |-> b.shr.calls + 1, url |-> 0,
                              downloads |-> 0, outcome |-> "returned" ] ]
    ELSE [ b EXCEPT !.shr = [ pc |-> "fetching", calls |-> b.shr.calls + 1,
                              url |-> b.rd.displayImageUrl,
                              downloads |-> 0, outcome |-> "none" ] ]

\* handleShare's catch block with the share rejection left unanswered
share_catchSilent(b) ==
    [ b EXCEPT !.shr.pc = "done", !.shr.outcome = "threw" ]

\* catch (error) { console.error(..); handleDownload(); }
share_catch(b) ==
    handleDownload([ b EXCEPT !.shr.pc = "done", !.shr.outcome = "threw" ])

\* fetch and response.blob() settled; then new File(..) and
\* if (navigator.share && navigator.canShare({ files: [file] })) with
\* platform "noShare" (navigator.share undefined), "noCanShare" (share
\* without canShare: the call throws), "cannot" (canShare false) or "can"
share_fetched(b, ok, platform) ==
    IF ~ok \/ platform = "noCanShare" THEN share_catch(b)
    ELSE IF platform = "can" THEN [ b EXCEPT !.shr.pc = "sharing" ]
    ELSE handleDownload([ b EXCEPT !.shr.pc = "done", !.shr.outcome = platform ])

\* await navigator.share(..) settled
share_settled(b, ok) ==
    IF ok THEN [ b EXCEPT !.shr.pc = "done", !.shr.outcome = "shared" ]
    ELSE share_catch(b)

----------------------------------------------------------------------------
(* App and imageProcessing.js: each operator is the code of one function   *)
(* or callback, from the state b it finds to the state it leaves.          *)

\* App's setProgress({ percent, .. }) called by run r, and the record of
\* the percentages the run has set so far
setProgress(b, r, percent) ==
    [ b EXCEPT !.progress = percent, !.run[r].shown = Append(@, percent) ]

\* (percent, message) => setProgress({ percent, message }), and the record
\* of the percentages this run's callback received
onProgress(b, r, percent) ==
    LET b1 == [ b EXCEPT !.run[r].plog = Append(@, percent) ]
    IN  IF b.run[r].caller = "app" THEN setProgress(b1, r, percent) ELSE b1

\* the run's promise rejects with e; App: catch (err) { setIsLoading(false);
\* setError(getErrorMessage(err)) }
\* the catch block without its setIsLoading(false)
FailStillLoading(b, r, e) ==
    LET b1 == [ b EXCEPT !.run[r].pc = "failed", !.run[r].err = e ]
    IN  IF b.run[r].caller = "app"
        THEN [ b1 EXCEPT !.error = getErrorMessage(version, e) ]
        ELSE b1

Fail(b, r, e) ==
    LET b1 == [ b EXCEPT !.run[r].pc = "failed", !.run[r].err = e ]
    IN  IF b.run[r].caller = "app"
        THEN [ b1 EXCEPT !.isLoading = FALSE, !.error = getErrorMessage(version, e) ]
        ELSE b1

\* processAndDisplayImage returns result; App: setResults(result);
\* setIsLoading(false)
Succeed(b, r, result) ==
    LET b1 == [ b EXCEPT !.run[r].pc = "done", !.run[r].result = result ]
    IN  IF b.run[r].caller = "app"
        THEN [ b1 EXCEPT !.results = result, !.isLoading = FALSE ]
        ELSE b1

\* processAndDisplayImage up to its first await
processAndDisplayImage(b, r, imageFile) ==
    LET b1 == onProgress(b, r, Num(10))
        b2 == createObjectURL(b1, "original", r)
    IN  [ b2 EXCEPT !.run[r].imageFile = imageFile,
                    !.run[r].purl = Len(b2.urls),
                    !.run[r].pimg = "pending",
                    !.run[r].ptimer = "armed",
                    !.run[r].pc = "loading" ]

\* the validator refusing a file of exactly the limit as well
validateAndCompressImageAtLimit(b, r, file) ==
    IF file.size >= MAX_FILE_SIZE
    THEN Fail(b, r, "TooLargeError")
    ELSE LET b1 == createObjectURL(b, "decode", r)
         IN  [ b1 EXCEPT !.run[r].vurl = Len(b1.urls),
                         !.run[r].vimg = "pending",
                         !.run[r].vtimer = "armed",
                         !.run[r].pc = "validating" ]

\* validateAndCompressImage up to the pending promise
validateAndCompressImage(b, r, file) ==
    IF file.size > MAX_FILE_SIZE
    THEN Fail(b, r, "TooLargeError")
    ELSE LET b1 == createObjectURL(b, "decode", r)
         IN  [ b1 EXCEPT !.run[r].vurl = Len(b1.urls),
                         !.run[r].vimg = "pending",
                         !.run[r].vtimer = "armed",
                         !.run[r].pc = "validating" ]

\* resolve(compressedFile): a settled promise ignores it; App continues with
\* setProgress({ percent: 20 }) and processAndDisplayImage(validatedFile, ..)
validate_resolve(b, r, file) ==
    IF b.run[r].pc # "validating" THEN b
    ELSE LET b1 == [ b EXCEPT !.run[r].vfile = file ]
         IN  IF b.run[r].caller = "app"
             THEN processAndDisplayImage(setProgress(b1, r, Num(20)), r, file)
             ELSE [ b1 EXCEPT !.run[r].pc = "done" ]

\* reject(new Error(..)): a settled promise ignores it
validate_reject(b, r, e) ==
    IF b.run[r].pc # "validating" THEN b ELSE Fail(b, r, e)

clearTimeout(b, r) ==
    IF b.run[r].vtimer = "armed" THEN [ b EXCEPT !.run[r].vtimer = "cleared" ] ELSE b

\* src/src img.onload: clearTimeout, size the canvas, draw, toBlob, revoke.
\* src/files: the second assignment to img.onload replaces the first, and
\* its body calls img.onload(), itself: clearTimeout, then the call stack
\* overflows and nothing else of the handler runs.
validate_onload(b, r) ==
    LET b1 == clearTimeout([ b EXCEPT !.run[r].vimg = "loaded" ], r)
    IN  IF version = "files"
        THEN [ b1 EXCEPT !.run[r].vcrashed = TRUE ]
        ELSE revokeObjectURL(
                 [ b1 EXCEPT !.run[r].vcanvas = ValidatedSize(b.run[r].file.width,
                                                              b.run[r].file.height),
                             !.run[r].vblob = "pending" ],
                 b.run[r].vurl)

\* canvas.toBlob callback
validate_toBlob(b, r, blob) ==
    LET b1 == [ b EXCEPT !.run[r].vblob = "done" ]
    IN  IF ~blob THEN validate_reject(b1, r, "CompressError")
        ELSE validate_resolve(b1, r, CompressedFile(b.run[r].vcanvas[1],
                                                    b.run[r].vcanvas[2]))

\* img.onerror: src/src clears the timer first, src/files does not
validate_onerror(b, r) ==
    LET b1 == [ b EXCEPT !.run[r].vimg = "errored" ]
        b2 == IF version = "src" THEN clearTimeout(b1, r) ELSE b1
    IN  validate_reject(revokeObjectURL(b2, b.run[r].vurl), r, "ValidatorLoadError")

\* the 30000 ms timer
validate_timeout(b, r) ==
    validate_reject(revokeObjectURL([ b EXCEPT !.run[r].vtimer = "fired" ],
                                    b.run[r].vurl),
                    r, "ValidatorTimeoutError")

\* processAndDisplayImage: img.onload = resolve, then the code up to the
\* next await.  src/src: onProgress(30), fileToBase64(imageFile).
\* src/files: onProgress(30), the downscaled canvas, onProgress(50),
\* runPillDetection(processedCanvas, ..)
process_onload(b, r) ==
    LET b1 == [ b EXCEPT !.run[r].pimg = "loaded" ]
        b2 == onProgress(b1, r, Num(30))
        w == b.run[r].imageFile.width
        h == b.run[r].imageFile.height
        scale == ProcessingScale(w, h)
    IN  IF b.run[r].pc # "loading" THEN b1
        ELSE IF version = "src" THEN [ b2 EXCEPT !.run[r].pc = "reading" ]
        ELSE [ onProgress(b2, r, Num(50)) EXCEPT
                 !.run[r].scale = scale,
                 !.run[r].canvas = ProcessedSize(w, h),
                 !.run[r].pc = "detecting" ]

\* img.onerror = () => reject(new Error('Failed to load image'))
process_onerror(b, r) ==
    LET b1 == [ b EXCEPT !.run[r].pimg = "errored" ]
    IN  IF b.run[r].pc # "loading" THEN b1 ELSE Fail(b1, r, "LoadError")

\* the 15000 ms timer doing nothing when it fires
process_timeoutIgnored(b, r) == [ b EXCEPT !.run[r].ptimer = "fired" ]

\* setTimeout(() => reject(new Error('Image loading timeout')), 15000);
\* the timer is never cleared
process_timeout(b, r) ==
    LET b1 == [ b EXCEPT !.run[r].ptimer = "fired" ]
    IN  IF b.run[r].pc # "loading" THEN b1 ELSE Fail(b1, r, "LoadTimeoutError")

\* the progress mapping without its offset of 50
apiProgressNoOffset(b, r, p) == onProgress(b, r, RMul(p, Num(40)))

\* callRoboflowAPI's progress callback: onProgress(50 + progress * 40)
apiProgress(b, r, p) == onProgress(b, r, RAdd(Num(50), RMul(p, Num(40))))

\* fileToBase64 resolved: onProgress(50), callRoboflowAPI: onProgress(0.3),
\* fetch(..)
reader_onload(b, r) ==
    LET b1 == apiProgress(onProgress(b, r, Num(50)), r, Rat(3, 10))
    IN  [ b1 EXCEPT !.run[r].requests = @ + 1, !.run[r].pc = "fetching" ]

\* a read failure that sends the detection request all the same
reader_onerrorRequesting(b, r) ==
    Fail([ b EXCEPT !.run[r].requests = @ + 1 ], r, "ReadFileError")

\* reader.onerror = () => reject(new Error('Failed to read file'))
reader_onerror(b, r) == Fail(b, r, "ReadFileError")

\* fetch settled, with the request sent again once after a failure
fetch_settledWithRetry(b, r, outcome) ==
    IF outcome = "ok"
    THEN [ apiProgress(b, r, Rat(7, 10)) EXCEPT !.run[r].pc = "parsing" ]
    ELSE IF b.run[r].requests < 2
    THEN [ b EXCEPT !.run[r].requests = @ + 1 ]
    ELSE Fail([ b EXCEPT !.run[r].caught = outcome ], r, "AnalyzeError")

\* fetch settled.  ok: onProgress(0.7), response.json().  A rejected fetch
\* or !response.ok lands in callRoboflowAPI's catch, which throws
\* 'Failed to analyze image. Please try again.'
fetch_settled(b, r, outcome) ==
    IF outcome = "ok"
    THEN [ apiProgress(b, r, Rat(7, 10)) EXCEPT !.run[r].pc = "parsing" ]
    ELSE Fail([ b EXCEPT !.run[r].caught = outcome ], r, "AnalyzeError")

\* the result object processAndDisplayImage returns
Result(b, r, detections) ==
    [ originalImageUrl |-> b.run[r].purl,
      originalWidth |-> b.run[r].imageFile.width,
      originalHeight |-> b.run[r].imageFile.height,
      detections |-> detections,
      pillCount |-> Len(detections) ]

\* response.json() settled.  A body that does not parse throws into the
\* same catch; otherwise onProgress(1.0), return data, onProgress(90), the
\* filter and conversion, onProgress(100), return
json_settled(b, r, ok, data) ==
    IF ~ok THEN Fail([ b EXCEPT !.run[r].caught = "parse" ], r, "AnalyzeError")
    ELSE LET b1 == onProgress(apiProgress(b, r, Num(1)), r, Num(90))
             b2 == onProgress(b1, r, Num(100))
         IN  Succeed([ b2 EXCEPT !.run[r].apiResult = data ], r,
                     Result(b, r, FormatDetections(data)))

RECURSIVE mockProgress(_, _, _, _)
\* runPillDetection's loop: onProgress((i + 1) / numPills) for i = 0..n-1,
\* each forwarded as onProgress(50 + progress * 0.4)
mockProgress(b, r, i, n) ==
    IF i = n THEN b
    ELSE mockProgress(onProgress(b, r, RAdd(Num(50), RMul(Rat(i + 1, n), Rat(4, 10)))),
                      r, i + 1, n)

\* src/files: the mock detector's timer fired with detections raw, then
\* onProgress(90), the division by scale, onProgress(100), return
mock_done(b, r, raw) ==
    LET b1 == mockProgress([ b EXCEPT !.run[r].raw = raw ], r, 0, Len(raw))
        b2 == onProgress(onProgress(b1, r, Num(90)), r, Num(100))
    IN  Succeed(b2, r, Result(b, r, ScaleDetections(raw, b.run[r].scale)))

\* a mock detection on a cw x ch canvas: x = Math.random() * canvas.width ..
MockBox(cw, ch, box) ==
    [ x |-> RMul(box.fx, Num(cw)), y |-> RMul(box.fy, Num(ch)),
      width |-> box.width, height |-> box.height, confidence |-> box.confidence ]

MockDraws ==
    { [ fx |-> Num(0), fy |-> Num(0), width |-> Num(30), height |-> Num(30),
        confidence |-> Rat(85, 100) ],
      [ fx |-> Rat(3, 4), fy |-> Rat(1, 2), width |-> Rat(99, 2), height |-> Num(45),
        confidence |-> Rat(99, 100) ] }

\* App.handleImageCapture(file) up to its first await
\* the handler without its setIsLoading(true)
handleImageCaptureNotLoading(b, r, file) ==
    validateAndCompressImage(
        setProgress([ b EXCEPT !.run[r].caller = "app", !.run[r].file = file,
                               !.run[r].during = InFlight(b),
                               !.error = NoError ],
                    r, Num(0)),
        r, file)

handleImageCapture(b, r, file) ==
    validateAndCompressImage(
        setProgress([ b EXCEPT !.run[r].caller = "app", !.run[r].file = file,
                               !.run[r].during = InFlight(b),
                               !.isLoading = TRUE, !.error = NoError ],
                    r, Num(0)),
        r, file)

\* App.handleRetake, as a closure over the results of the render that
\* created it
handleRetake(b, closureResults) ==
    LET u == closureResults.originalImageUrl
        b1 == IF u # 0
              THEN revokeObjectURL([ b EXCEPT !.urls[u].retaken = TRUE ], u)
              ELSE b
    IN  [ b1 EXCEPT !.results = NoResult, !.error = NoError, !.progress = Num(0) ]

----------------------------------------------------------------------------
(* Actions *)

Idle == { r \in Runs : run[r].pc = "idle" }
NextRun == CHOOSE r \in Idle : \A q \in Idle : r <= q

\* a photo chosen through the camera input or the file input
\* (handleCameraCapture and handleFileSelect are the same code); both inputs
\* are rendered on the capture screen only, with disabled={isLoading}
CaptureFromInput ==
    /\ results = NoResult
    /\ ~isLoading
    /\ Idle # {}
    /\ \E file \in AppCaptures :
          Becomes(Render(handleImageCapture(Cur, NextRun, file)))

\* the error banner's Dismiss button: setError(null)
DismissError ==
    /\ results = NoResult
    /\ error # NoError
    /\ Becomes([ Cur EXCEPT !.error = NoError ])

\* the results screen's "Take Another Photo" button
Retake ==
    /\ rd.mounted
    /\ Becomes(Render(handleRetake(Cur, rd.onRetake)))

\* validateAndCompressImage's callbacks
ValidateLoad(r) ==
    /\ run[r].vimg = "pending"
    /\ Becomes(Render(validate_onload(Cur, r)))

ValidateError(r) ==
    /\ run[r].vimg = "pending"
    /\ Becomes(Render(validate_onerror(Cur, r)))

ValidateTimeout(r) ==
    /\ run[r].vtimer = "armed"
    /\ Becomes(Render(validate_timeout(Cur, r)))

\* a canvas without pixels encodes to no blob
ValidateBlob(r) ==
    /\ run[r].vblob = "pending"
    /\ \E blob \in (IF 0 \in { run[r].vcanvas[1], run[r].vcanvas[2] }
                     THEN { FALSE } ELSE BOOLEAN) :
          Becomes(Render(validate_toBlob(Cur, r, blob)))

\* processAndDisplayImage's callbacks while its load promise is pending
ProcessLoad(r) ==
    /\ run[r].pimg = "pending"
    /\ run[r].pc = "loading"
    /\ Becomes(Render(process_onload(Cur, r)))

ProcessError(r) ==
    /\ run[r].pimg = "pending"
    /\ run[r].pc = "loading"
    /\ Becomes(Render(process_onerror(Cur, r)))

ProcessTimeout(r) ==
    /\ run[r].ptimer = "armed"
    /\ run[r].pc = "loading"
    /\ Becomes(Render(process_timeout(Cur, r)))

\* the same callbacks once that promise is settled: all they do is call
\* resolve or reject on it, which changes nothing of the program
LateProcessLoad(r) ==
    /\ run[r].pimg = "pending"
    /\ run[r].pc # "loading"
    /\ Becomes(process_onload(Cur, r))

LateProcessError(r) ==
    /\ run[r].pimg = "pending"
    /\ run[r].pc # "loading"
    /\ Becomes(process_onerror(Cur, r))

LateProcessTimeout(r) ==
    /\ run[r].ptimer = "armed"
    /\ run[r].pc # "loading"
    /\ Becomes(process_timeout(Cur, r))

ReaderLoad(r) ==
    /\ run[r].pc = "reading"
    /\ Becomes(Render(reader_onload(Cur, r)))

ReaderError(r) ==
    /\ run[r].pc = "reading"
    /\ Becomes(Render(reader_onerror(Cur, r)))

FetchSettled(r) ==
    /\ run[r].pc = "fetching"
    /\ \E outcome \in { "ok", "status", "network" } :
          Becomes(Render(fetch_settled(Cur, r, outcome)))

JsonSettled(r) ==
    /\ run[r].pc = "parsing"
    /\ \/ Becomes(Render(json_settled(Cur, r, FALSE, NoPredictions)))
       \/ \E data \in (IF run[r].caller = "app" THEN AppResponses ELSE FnResponses) :
             Becomes(Render(json_settled(Cur, r, TRUE, data)))

\* src/files: the mock detector's 1000 ms timer
MockDetected(r) ==
    /\ run[r].pc = "detecting"
    /\ \E n \in MockCounts, first \in MockDraws, rest \in MockDraws :
          Becomes(Render(mock_done(Cur, r,
              [ i \in 1..n |-> MockBox(run[r].canvas[1], run[r].canvas[2],
                                       IF i = 1 THEN first ELSE rest) ])))

\* ResultsDisplay's callbacks; a revoked blob URL no longer loads
DisplayLoad(i) ==
    /\ fx[i].img = "pending"
    /\ urls[fx[i].props.originalImageUrl].released = 0
    /\ Becomes(display_onload(Cur, i))

DisplayError(i) ==
    /\ fx[i].img = "pending"
    /\ Becomes(display_onerror(Cur, i))

DisplayBlob(i) ==
    /\ fx[i].blob = "pending"
    /\ \E blob \in BOOLEAN : Becomes(display_toBlob(Cur, i, blob))

\* ResultsDisplay's Share button and the promises handleShare awaits; a
\* revoked blob URL can no longer be fetched
ShareClick ==
    /\ rd.mounted
    /\ shr.pc \in { "idle", "done" }
    /\ shr.calls < MaxShares
    /\ Becomes(handleShare(Cur))

ShareFetched ==
    /\ shr.pc = "fetching"
    /\ \E ok \in (IF urls[shr.url].released > 0 THEN { FALSE } ELSE BOOLEAN),
          platform \in { "noShare", "noCanShare", "cannot", "can" } :
          Becomes(share_fetched(Cur, ok, platform))

ShareSettled ==
    /\ shr.pc = "sharing"
    /\ \E ok \in BOOLEAN : Becomes(share_settled(Cur, ok))

Callbacks ==
    \/ \E r \in Runs : ValidateLoad(r)
    \/ \E r \in Runs : ValidateError(r)
    \/ \E r \in Runs : ValidateTimeout(r)
    \/ \E r \in Runs : ValidateBlob(r)
    \/ \E r \in Runs : ProcessLoad(r)
    \/ \E r \in Runs : ProcessError(r)
    \/ \E r \in Runs : ProcessTimeout(r)
    \/ \E r \in Runs : ReaderLoad(r)
    \/ \E r \in Runs : ReaderError(r)
    \/ \E r \in Runs : FetchSettled(r)
    \/ \E r \in Runs : JsonSettled(r)

DisplayCallbacks ==
    \/ \E i \in 1..Len(fx) : DisplayLoad(i)
    \/ \E i \in 1..Len(fx) : DisplayError(i)
    \/ \E i \in 1..Len(fx) : DisplayBlob(i)

----------------------------------------------------------------------------
(* The App as the user drives it: src/src/imageProcessing.js linked, every *)
(* capture and retake through the rendered controls.  The callbacks of     *)
(* processAndDisplayImage that arrive after its load promise is settled    *)
(* change no program state and are left to SpecFn.                         *)

Init ==
    /\ version = "src"
    /\ run = [ r \in Runs |-> IdleRun ]
    /\ urls = << >>
    /\ results = NoResult
    /\ isLoading = FALSE
    /\ error = NoError
    /\ progress = Num(0)
    /\ rd = Unmounted
    /\ fx = << >>
    /\ shr = NoShare

Next ==
    \/ CaptureFromInput
    \/ DismissError
    \/ Retake
    \/ Callbacks
    \/ DisplayCallbacks

Spec == Init /\ [][Next]_vars

----------------------------------------------------------------------------
(* The App's handlers as functions: besides the user's path, the           *)
(* environment calls handleImageCapture while a run is in flight and calls *)
(* an onRetake closure again after the render that created it.             *)

CaptureWhileInFlight ==
    /\ InFlight(Cur) # {}
    /\ Idle # {}
    /\ \E file \in AppCaptures :
          Becomes(Render(handleImageCapture(Cur, NextRun, file)))

RetakeAgain ==
    /\ rd.onRetake # NoResult
    /\ rd.onRetake # results
    /\ urls[rd.onRetake.originalImageUrl].released < MaxReleases
    /\ Becomes(Render(handleRetake(Cur, rd.onRetake)))

NextHandlers ==
    \/ Next
    \/ CaptureWhileInFlight
    \/ RetakeAgain

SpecHandlers == Init /\ [][NextHandlers]_vars

----------------------------------------------------------------------------
(* One capture through the App and the results screen it leads to, with    *)
(* the Share button of the IMG-based ResultsDisplay.                       *)

CaptureFirst ==
    /\ \A r \in Runs : run[r].pc = "idle"
    /\ CaptureFromInput

NextShare ==
    \/ CaptureFirst
    \/ DismissError
    \/ Retake
    \/ Callbacks
    \/ DisplayCallbacks
    \/ ShareClick
    \/ ShareFetched
    \/ ShareSettled

SpecShare == Init /\ [][NextShare]_vars

----------------------------------------------------------------------------
(* The two functions called directly, once per behaviour, in either        *)
(* version of imageProcessing.js, with every callback the browser can      *)
(* still deliver after the promise is settled.                             *)

InitFn ==
    /\ version \in Versions
    /\ run = [ r \in Runs |-> IdleRun ]
    /\ urls = << >>
    /\ results = NoResult
    /\ isLoading = FALSE
    /\ error = NoError
    /\ progress = Num(0)
    /\ rd = Unmounted
    /\ fx = << >>
    /\ shr = NoShare

CallValidate ==
    /\ \A r \in Runs : run[r].pc = "idle"
    /\ \E file \in FnCaptures :
          Becomes(validateAndCompressImage(
              [ Cur EXCEPT !.run[1].caller = "validate", !.run[1].file = file ], 1, file))

CallProcess ==
    /\ \A r \in Runs : run[r].pc = "idle"
    /\ \E file \in FnCaptures :
          Becomes(processAndDisplayImage(
              [ Cur EXCEPT !.run[1].caller = "process", !.run[1].file = file ], 1, file))

\* a renderer called with the detections a run returned
DrawResult(r) ==
    /\ run[r].pc = "done"
    /\ run[r].caller = "process"
    /\ run[r].renderer = "none"
    /\ \E renderer \in Renderers :
          run' = [ run EXCEPT ![r].renderer = renderer,
                              ![r].ops = Drawn(renderer, run[r].result.detections) ]
    /\ UNCHANGED << version, urls, results, isLoading, error, progress, rd, fx, shr >>

NextFn ==
    \/ CallValidate
    \/ CallProcess
    \/ Callbacks
    \/ \E r \in Runs : DrawResult(r)
    \/ \E r \in Runs : MockDetected(r)
    \/ \E r \in Runs : LateProcessLoad(r)
    \/ \E r \in Runs : LateProcessError(r)
    \/ \E r \in Runs : LateProcessTimeout(r)

SpecFn == InitFn /\ [][NextFn]_vars

----------------------------------------------------------------------------
(* Properties.  Unless said otherwise a property is an invariant of the    *)
(* specification named with it.                                            *)

\* C1 (SpecFn): when processAndDisplayImage returns, a prediction of the
\* service's list is among the detections iff its confidence is >= 0.50,
\* and the k-th detection is the k-th such prediction of the list (same
\* relative order); for the confidences 0.9, 0.4, 0.5, 0.51, 0.0, 1.0,
\* 0.49, 0.6, 0.3, 0.8 the detections are those of 0.9, 0.5, 0.51, 1.0,
\* 0.6, 0.8 in that order.
C1_FilterKeepsThresholdAndOrder ==
    \A r \in Runs :
        (run[r].pc = "done" /\ run[r].apiResult.hasPredictions) =>
            LET preds == run[r].apiResult.predictions
                dets == run[r].result.detections
                kept == { i \in 1..Len(preds) : RGeq(preds[i].confidence, Rat(1, 2)) }
                kth(k) == CHOOSE i \in kept : Cardinality({ j \in kept : j <= i }) = k
            IN  /\ Len(dets) = Cardinality(kept)
                /\ run[r].result.pillCount = Cardinality(kept)
                /\ \A k \in 1..Len(dets) :
                      /\ dets[k].confidence = preds[kth(k)].confidence
                      /\ dets[k].class = preds[kth(k)].class
                      /\ dets[k].width = preds[kth(k)].width
                      /\ dets[k].height = preds[kth(k)].height
                /\ preds = ExamplePredictions =>
                      [ k \in 1..Len(dets) |-> dets[k].confidence ]
                          = << Rat(9, 10), Rat(1, 2), Rat(51, 100), Num(1),
                               Rat(6, 10), Rat(8, 10) >>

\* a run that returned for the documented list of ten, six of them kept
C1_ExampleFiltered ==
    /\ run[1].pc = "done"
    /\ run[1].apiResult = Response(ExamplePredictions)
    /\ Len(run[1].result.detections) = 6
    /\ run[1].result.detections[2].confidence = CONFIDENCE_THRESHOLD

\* C2 (Spec): the canvas a ResultsDisplay effect draws on has the width and
\* height of the captured source image of the run that produced the result,
\* for every capture, those above the validator's 4096 limit included.
C2_CanvasHasCapturedSize ==
    \A i \in 1..Len(fx) :
        fx[i].img = "loaded" =>
            LET capture == run[urls[fx[i].props.originalImageUrl].owner].file
            IN  fx[i].canvas = << capture.width, capture.height >>

\* C3 (SpecFn, src/files): the scale factor s of a run is in (0, 1]; each
\* returned detection is the inference-space detection with x, y, width and
\* height divided by s, so that multiplied by s they are the
\* inference-space values again; with s = 1 the four values are equal to
\* those of the inference-space detection.
C3_ScaleMappingInverts ==
    \A r \in Runs :
        (version = "files" /\ run[r].pc = "done") =>
            LET s == run[r].scale
                raw == run[r].raw
                dets == run[r].result.detections
            IN  /\ RLt(Num(0), s) /\ RLeq(s, Num(1))
                /\ Len(dets) = Len(raw)
                /\ \A k \in 1..Len(dets) :
                      /\ dets[k].x = RDiv(raw[k].x, s)
                      /\ dets[k].y = RDiv(raw[k].y, s)
                      /\ dets[k].width = RDiv(raw[k].width, s)
                      /\ dets[k].height = RDiv(raw[k].height, s)
                      /\ RMul(dets[k].x, s) = raw[k].x
                      /\ RMul(dets[k].y, s) = raw[k].y
                      /\ RMul(dets[k].width, s) = raw[k].width
                      /\ RMul(dets[k].height, s) = raw[k].height
                      /\ s = Num(1) =>
                            /\ dets[k].x = raw[k].x
                            /\ dets[k].y = raw[k].y
                            /\ dets[k].width = raw[k].width
                            /\ dets[k].height = raw[k].height

\* a returned run of src/files whose image was downscaled for detection and
\* whose detections were moved by the mapping
C3_DownscaledRunMapped ==
    /\ version = "files"
    /\ run[1].pc = "done"
    /\ RLt(run[1].scale, Num(1))
    /\ \E k \in 1..Len(run[1].raw) :
          /\ run[1].raw[k].x # Num(0)
          /\ run[1].result.detections[k].x # run[1].raw[k].x
          /\ run[1].result.detections[k].width[2] # 1

\* C4 (SpecFn): each detection processAndDisplayImage stores for a kept
\* prediction with centre (cx, cy) and size (w, h) has x = cx - w/2,
\* y = cy - h/2, width = w, height = h, and (x + width/2, y + height/2) is
\* (cx, cy) again.
C4_CentreToTopLeft ==
    \A r \in Runs :
        (run[r].pc = "done" /\ run[r].apiResult.hasPredictions) =>
            LET preds == run[r].apiResult.predictions
                dets == run[r].result.detections
                kept == { i \in 1..Len(preds) : AcceptPrediction(preds[i]) }
                kth(k) == CHOOSE i \in kept : Cardinality({ j \in kept : j <= i }) = k
                half(a) == RDiv(a, Num(2))
            IN  \A k \in 1..Len(dets) :
                    LET p == preds[kth(k)]
                        d == dets[k]
                    IN  /\ d.x = RSub(p.x, half(p.width))
                        /\ d.y = RSub(p.y, half(p.height))
                        /\ d.width = p.width
                        /\ d.height = p.height
                        /\ RAdd(d.x, half(d.width)) = p.x
                        /\ RAdd(d.y, half(d.height)) = p.y

\* a returned run with a detection whose half sizes are fractions and whose
\* top-left corner is left of the image
C4_FractionalBoxConverted ==
    /\ run[1].pc = "done"
    /\ \E k \in 1..Len(run[1].result.detections) :
          /\ run[1].result.detections[k].x = Num(-1)
          /\ run[1].result.detections[k].y = Rat(3, 4)
          /\ run[1].result.detections[k].class = "capsule"

\* C5 (SpecHandlers): once handleRetake has run on a displayed result, that
\* result's originalImageUrl has been passed to URL.revokeObjectURL exactly
\* once, all calls of the session counted, a handler invoked again for the
\* same result included.
C5_RetakenUrlReleasedOnce ==
    \A u \in 1..Len(urls) :
        (urls[u].kind = "original" /\ urls[u].retaken) => urls[u].released = 1

\* C6 (Spec): an original-image URL that processAndDisplayImage created and
\* that has not been released belongs to a run still in flight or is the
\* originalImageUrl of the result on display; a failed run's and a retaken
\* result's URL have been released.
C6_OriginalUrlsReleased ==
    \A u \in 1..Len(urls) :
        (urls[u].kind = "original" /\ urls[u].released = 0) =>
            \/ run[urls[u].owner].pc \notin Terminal
            \/ results.originalImageUrl = u

\* C7 (Spec): a displayImageUrl the ResultsDisplay created and that has not
\* been released is the one the mounted component shows for its current
\* props; after teardown none is left unreleased.
C7_DisplayUrlsReleased ==
    \A u \in 1..Len(urls) :
        (urls[u].kind = "display" /\ urls[u].released = 0) =>
            /\ rd.mounted
            /\ rd.displayImageUrl = u
            /\ fx[urls[u].owner].props = rd.props

\* C8 (SpecFn): once validateAndCompressImage has created its decode URL
\* and nothing of the call is pending any more (no load or error event, no
\* armed timer, no encode callback), the URL has been released.
C8_DecodeUrlReleased ==
    \A r \in Runs :
        ( /\ run[r].caller = "validate"
          /\ run[r].vurl # 0
          /\ run[r].vimg # "pending"
          /\ run[r].vtimer # "armed"
          /\ run[r].vblob # "pending" ) =>
            urls[run[r].vurl].released >= 1

\* C9 (SpecHandlers): for a capture B started while capture A was in
\* flight, once both runs have completed and neither result has been
\* retaken, the App shows B's outcome: B's result if B returned, and no
\* result, not loading, if B failed.
C9_LastCaptureWins ==
    \A a \in Runs, b \in Runs :
        ( /\ a \in run[b].during
          /\ run[a].pc \in Terminal
          /\ run[b].pc \in Terminal
          /\ \A u \in 1..Len(urls) :
                urls[u].owner \in { a, b } => ~urls[u].retaken ) =>
            /\ ~isLoading
            /\ run[b].pc = "done" => results = run[b].result
            /\ run[b].pc = "failed" => results = NoResult

\* C10 (SpecFn): the percentages one processAndDisplayImage run has passed
\* to onProgress so far are in non-decreasing order, whichever way the run
\* ends; a run that returned reported 10, 30, 50, then values between 50
\* and 90, then 90 and 100.
C10_ProgressNonDecreasing ==
    \A r \in Runs :
        LET plog == run[r].plog
            n == Len(plog)
        IN  /\ \A i \in 1..n, j \in 1..n : i <= j => RLeq(plog[i], plog[j])
            /\ (run[r].caller = "process" /\ run[r].pc = "done") =>
                  /\ n >= 5
                  /\ plog[1] = Num(10) /\ plog[2] = Num(30) /\ plog[3] = Num(50)
                  /\ plog[n - 1] = Num(90) /\ plog[n] = Num(100)
                  /\ \A i \in 4..(n - 2) :
                        RLeq(Num(50), plog[i]) /\ RLeq(plog[i], Num(90))

\* a run of src/src that returned after the service's three sub-progress
\* reports
C10_FullProgressReported ==
    /\ version = "src"
    /\ run[1].pc = "done"
    /\ run[1].plog = << Num(10), Num(30), Num(50), Num(62), Num(78), Num(90),
                        Num(90), Num(100) >>

\* C11 (SpecFn, src/files): the inference canvas of a W x H image is
\* floor(W * s) x floor(H * s) for the one factor s = min(1024 / W,
\* 1024 / H, 1): a longer axis above 1024 becomes 1024, an image within
\* 1024 keeps its size, and 3024 x 4032 becomes 768 x 1024.
C11_InferenceSize ==
    \A r \in Runs :
        (version = "files" /\ run[r].pc \in { "detecting", "done" }) =>
            LET W == run[r].imageFile.width
                H == run[r].imageFile.height
                s == RMin(RMin(Rat(1024, W), Rat(1024, H)), Num(1))
            IN  /\ run[r].canvas = << Floor(RMul(Num(W), s)), Floor(RMul(Num(H), s)) >>
                /\ (W >= H /\ W > 1024) => run[r].canvas[1] = 1024
                /\ (H >= W /\ H > 1024) => run[r].canvas[2] = 1024
                /\ (W <= 1024 /\ H <= 1024) => run[r].canvas = << W, H >>
                /\ (W = 3024 /\ H = 4032) => run[r].canvas = << 768, 1024 >>

C13_SmallImagePassedThrough ==
    \A r \in Runs :
        ( /\ run[r].caller = "validate"
          /\ run[r].pc = "done"
          /\ run[r].file.size <= 10 * 1024 * 1024
          /\ run[r].file.width <= 4096
          /\ run[r].file.height <= 4096 ) =>
            /\ run[r].vfile.width = run[r].file.width
            /\ run[r].vfile.height = run[r].file.height
            /\ run[r].vfile.content = run[r].file.content

\* C14 (Spec): a capture fails with the too-large error exactly when its
\* size is above 10 * 1024 * 1024 bytes; such a run has created no decode
\* URL (nor any other), has issued no detection request and has no result;
\* and the step in which it fails leaves results as they were, with
\* isLoading false and the too-large message as error.
C14_TooLargeRejectedFirst ==
    /\ [](\A r \in Runs :
            run[r].caller = "app" =>
                /\ (run[r].err = "TooLargeError") <=> (run[r].file.size > 10 * 1024 * 1024)
                /\ run[r].err = "TooLargeError" =>
                      /\ run[r].pc = "failed"
                      /\ run[r].vurl = 0 /\ run[r].purl = 0
                      /\ \A u \in 1..Len(urls) :
                            urls[u].kind \in { "decode", "original" } =>
                                urls[u].owner # r
                      /\ run[r].requests = 0
                      /\ run[r].result = NoResult)
    /\ [][\A r \in Runs :
            (run[r].pc = "idle" /\ run'[r].err = "TooLargeError") =>
                /\ results' = results
                /\ ~isLoading'
                /\ error' = getErrorMessage("src", "TooLargeError")
                /\ urls' = urls]_vars

\* one capture above the limit refused and one of exactly the limit taken
\* on to decoding
C14_LimitAcceptedAboveRefused ==
    \E r \in Runs, q \in Runs :
        /\ run[r].err = "TooLargeError"
        /\ run[r].file.size = MAX_FILE_SIZE + 1
        /\ run[q].file.size = MAX_FILE_SIZE
        /\ run[q].vurl # 0

\* C15 (SpecFn): a fired timer with the image neither loaded nor errored
\* means the call was rejected with that timer's error (30000 ms in
\* validateAndCompressImage, 15000 ms in processAndDisplayImage); and a
\* call rejected by its timer stays rejected, without result, whatever
\* load event arrives afterwards.
C15_TimerAbandonsRun ==
    \A r \in Runs :
        /\ (run[r].vtimer = "fired" /\ run[r].vimg = "pending") =>
              run[r].err = "ValidatorTimeoutError"
        /\ (run[r].ptimer = "fired" /\ run[r].pimg = "pending") =>
              run[r].err = "LoadTimeoutError"
        /\ run[r].err \in { "ValidatorTimeoutError", "LoadTimeoutError" } =>
              /\ run[r].pc = "failed"
              /\ run[r].err = "ValidatorTimeoutError" =>
                    run[r].vfile = NoFile /\ run[r].purl = 0
              /\ run[r].result = NoResult
              /\ run[r].requests = 0
              /\ results.originalImageUrl = 0
                    \/ urls[results.originalImageUrl].owner # r

\* the image of a processAndDisplayImage call loaded after the 15000 ms
\* timer had rejected it
C15_LoadAfterTimeout ==
    /\ run[1].err = "LoadTimeoutError"
    /\ run[1].ptimer = "fired"
    /\ run[1].pimg = "loaded"

\* C16 (Spec): a run whose detection request failed in transport or came
\* back with a non-success status has failed, has issued exactly one
\* request and has no result on display; in the step of the failure App
\* sets the error, leaves results alone and ends loading.  No run issues
\* more than one request.
C16_RequestFailureNotRetried ==
    /\ [](\A r \in Runs :
            /\ run[r].requests <= 1
            /\ run[r].caught \in { "network", "status" } =>
                  /\ run[r].pc = "failed"
                  /\ run[r].requests = 1
                  /\ run[r].result = NoResult
                  /\ results.originalImageUrl # run[r].purl)
    /\ [][\A r \in Runs :
            (run[r].caught = "none" /\ run'[r].caught \in { "network", "status" }) =>
                /\ error' # NoError
                /\ results' = results
                /\ ~isLoading'
                /\ run'[r].requests = run[r].requests]_vars

\* a run failed by a non-success status, its error on display
C16_StatusFailureShown ==
    \E r \in Runs :
        /\ run[r].caught = "status"
        /\ run[r].requests = 1
        /\ error = "Failed to analyze the image. Please try again."

\* C17 (Spec): a run that failed in transport or by a non-success status
\* and a run that failed on a response that does not parse end with
\* different errors: different messages, and different user-facing
\* messages chosen from them.
C17_FailureKindsDistinct ==
    \A r \in Runs, q \in Runs :
        (run[r].caught \in { "network", "status" } /\ run[q].caught = "parse") =>
            /\ Message(run[r].err) # Message(run[q].err)
            /\ getErrorMessage(version, run[r].err) # getErrorMessage(version, run[q].err)

C20_ReadyOrFailed ==
    /\ [](InFlight(Cur) # {} => isLoading)
    /\ [][ \A r \in Runs :
             (run[r].pc \notin Terminal /\ run'[r].pc \in Terminal) =>
                LET ready ==
                        /\ run'[r].pc = "done"
                        /\ results' # NoResult
                        /\ results' = run'[r].result
                        /\ error' = NoError
                    failed ==
                        /\ run'[r].pc = "failed"
                        /\ error' # NoError
                        /\ error' = getErrorMessage(version, run'[r].err)
                        /\ results' = NoResult
                IN  /\ ~isLoading'
                    /\ ready \/ failed
                    /\ ~(ready /\ failed) ]_vars

\* a first capture failed and a second one is ready: its result is shown,
\* no error, not loading
C20_FailedThenReady ==
    /\ run[1].pc = "failed"
    /\ run[2].pc = "done"
    /\ results = run[2].result
    /\ results # NoResult
    /\ error = NoError
    /\ ~isLoading

\* C21 (Spec): the percentages a handleImageCapture run has passed to
\* setProgress so far, its own 0 and 20 and every value its callback
\* forwarded, are in non-decreasing order.
C21_AppProgressNonDecreasing ==
    \A r \in Runs :
        LET shown == run[r].shown
        IN  \A i \in 1..Len(shown), j \in 1..Len(shown) :
                i <= j => RLeq(shown[i], shown[j])

\* C22 (Spec): for every failed run whose error is of a known kind,
\* getErrorMessage gives the message of that kind and not the generic one:
\* the too-large message for the too-large failure, the took-too-long
\* message for the validator's and the pipeline's load timeouts, the
\* could-not-load message for the two image load failures, and a
\* detection-service message for the failure of the detection request.
C22_KnownFailuresMapped ==
    \A r \in Runs :
        run[r].pc = "failed" =>
            LET e == run[r].err
                message == getErrorMessage(version, e)
                table == errorMessages(version)
            IN  /\ e \in { "TooLargeError", "ValidatorTimeoutError", "LoadTimeoutError",
                           "ValidatorLoadError", "LoadError", "AnalyzeError" } =>
                      message # GenericMessage
                /\ e = "TooLargeError" => message = table[1][2]
                /\ e \in { "ValidatorTimeoutError", "LoadTimeoutError" } =>
                      message = table[2][2]
                /\ e \in { "ValidatorLoadError", "LoadError" } => message = table[3][2]
                /\ e = "AnalyzeError" => message \in { table[5][2], table[6][2] }

\* C23 (SpecFn): whichever renderer draws the detections a run returned,
\* the calls for the detections come in ascending index order, all calls of
\* one detection before those of the next; the calls of the detection at
\* index i begin with the fill of the box, the outline, the background
\* patch of the number and the number i + 1 as text, in this order, and
\* what follows for that detection is the confidence label, present only
\* if the detection has a confidence; the numbers drawn are 1..n, each
\* once.
C23_DrawOrder ==
    \A r \in Runs :
        run[r].renderer # "none" =>
            LET detections == run[r].result.detections
                n == Len(detections)
                ops == SelectSeq(run[r].ops, LAMBDA op : op.part # "image")
                calls(i) == SelectSeq(ops, LAMBDA op : op.index = i)
                numbers == SelectSeq(ops, LAMBDA op : op.part = "number")
            IN  /\ \A a \in 1..Len(ops), b \in 1..Len(ops) :
                      a <= b => ops[a].index <= ops[b].index
                /\ \A a \in 1..Len(ops) : ops[a].index \in 0..(n - 1)
                /\ \A i \in 0..(n - 1) :
                      /\ Len(calls(i)) >= 4
                      /\ [ k \in 1..4 |-> calls(i)[k].part ]
                            = << "fill", "outline", "patch", "number" >>
                      /\ calls(i)[4].text = i + 1
                      /\ \A k \in 5..Len(calls(i)) :
                            /\ calls(i)[k].part \in { "confidencePatch", "confidenceOutline",
                                                      "confidence" }
                            /\ Truthy(detections[i + 1].confidence)
                /\ Len(numbers) = n
                /\ \A k \in 1..n : numbers[k].text = k

\* C24 (SpecFn): a validateAndCompressImage promise that is still pending
\* can still settle: the image's load or error event, the 30000 ms timer or
\* the toBlob callback is still to come; and once the image has loaded, the
\* promise is settled or the encoding that settles it is under way.
C24_ValidatorSettles ==
    \A r \in Runs :
        run[r].pc = "validating" =>
            /\ \/ run[r].vimg = "pending"
               \/ run[r].vtimer = "armed"
               \/ run[r].vblob = "pending"
            /\ run[r].vimg = "loaded" => run[r].vblob = "pending"

\* C25 (SpecFn): of the validator's load, error and timer callbacks only
\* the first to fire has an effect: the decode URL of a run is passed to
\* URL.revokeObjectURL at most once, and a run whose timer fired or whose
\* image errored does no resize or encode work.
C25_FirstCallbackOnly ==
    \A r \in Runs :
        run[r].vurl # 0 =>
            /\ urls[run[r].vurl].released <= 1
            /\ (run[r].vtimer = "fired" \/ run[r].vimg = "errored") =>
                  /\ run[r].vblob = "none"
                  /\ run[r].vcanvas = << 0, 0 >>

\* C26 (SpecFn): in the result of every run that returned, pillCount is
\* the length of detections, and that is the number of predictions (in
\* src/files, of detections of the detector) with confidence >= 0.50; a
\* response without a predictions list gives a returned run with no
\* detections and pillCount 0.
C26_PillCountIsAcceptedCount ==
    \A r \in Runs :
        (run[r].pc = "done" /\ run[r].caller = "process") =>
            LET result == run[r].result
                found == IF version = "src"
                         THEN IF run[r].apiResult.hasPredictions
                              THEN run[r].apiResult.predictions
                              ELSE << >>
                         ELSE run[r].raw
                accepted == { i \in 1..Len(found) :
                                RGeq(found[i].confidence, Rat(50, 100)) }
            IN  /\ result # NoResult
                /\ result.pillCount = Len(result.detections)
                /\ Len(result.detections) = Cardinality(accepted)
                /\ (version = "src" /\ ~run[r].apiResult.hasPredictions) =>
                      /\ result.detections = << >>
                      /\ result.pillCount = 0

\* a src/src run whose response had no predictions list returned
C26_NoPredictionsReturned ==
    /\ version = "src"
    /\ run[1].caller = "process"
    /\ run[1].pc = "done"
    /\ run[1].requests = 1
    /\ ~run[1].apiResult.hasPredictions
    /\ run[1].result.originalImageUrl # 0
    /\ run[1].result.pillCount = 0

\* C27 (Spec): at most one handleImageCapture run is in flight at any
\* time; while one is in flight isLoading is true, which disables both
\* inputs, and no run was started while another one was in flight.
C27_OneRunInFlight ==
    /\ Cardinality(InFlight(Cur)) <= 1
    /\ InFlight(Cur) # {} => isLoading
    /\ \A r \in Runs : run[r].during = {}

\* a second capture in flight after the first one has ended
C27_SecondRunAlone ==
    /\ run[1].pc \in Terminal
    /\ run[2].caller = "app"
    /\ InFlight(Cur) = { 2 }
    /\ isLoading

\* C28 (Spec): a run's detection request is issued in the step that ends
\* the reading of its file, when its validation has resolved with a file
\* and its image has loaded; and a run that failed in validation, in the
\* image load or in the file read has issued no request.
C28_RequestAfterValidationLoadRead ==
    /\ [](\A r \in Runs :
             /\ run[r].requests >= 1 =>
                   /\ run[r].vfile # NoFile
                   /\ run[r].imageFile = run[r].vfile
                   /\ run[r].pimg = "loaded"
                   /\ run[r].pc \notin { "validating", "loading", "reading" }
             /\ ( /\ run[r].pc = "failed"
                  /\ run[r].err \in { "TooLargeError", "ValidatorTimeoutError",
                                      "ValidatorLoadError", "CompressError", "LoadError",
                                      "LoadTimeoutError", "ReadFileError" } ) =>
                   run[r].requests = 0)
    /\ [][ \A r \in Runs :
             run'[r].requests # run[r].requests =>
                /\ run[r].pc = "reading"
                /\ run[r].vblob = "done"
                /\ run[r].pimg = "loaded"
                /\ run[r].requests = 0
                /\ run'[r].requests = 1
                /\ run'[r].pc = "fetching" ]_vars

\* after a capture whose file could not be read, with no request, a second
\* capture has its request out
C28_RequestOutAfterReadFailure ==
    /\ run[1].err = "ReadFileError"
    /\ run[1].requests = 0
    /\ run[2].pc = "fetching"
    /\ run[2].requests = 1

\* C29 (Spec): when the latest effect of the mounted ResultsDisplay has
\* run to its end, by the image's error event or by the toBlob callback
\* after its load, with or without a blob, isProcessing is false.
C29_ProcessingEnds ==
    \A i \in 1..Len(fx) :
        ( /\ i = Len(fx)
          /\ Alive(Cur, i)
          /\ fx[i].props = rd.props
          /\ \/ fx[i].img = "errored"
             \/ fx[i].img = "loaded" /\ fx[i].blob = "done" ) =>
            ~rd.isProcessing

\* C30 (SpecFn): for a source image of width >= 1 and height >= 1, the
\* canvas the validator sizes (src/src, maximum 4096) and the canvas the
\* inference image is drawn on (src/files, maximum 1024) both have width
\* >= 1 and height >= 1.
C30_DownscaledSizePositive ==
    \A r \in Runs :
        (run[r].file.width >= 1 /\ run[r].file.height >= 1) =>
            /\ run[r].vblob # "none" =>
                  run[r].vcanvas[1] >= 1 /\ run[r].vcanvas[2] >= 1
            /\ (version = "files" /\ run[r].pc \in { "detecting", "done" }
                                  /\ run[r].caller = "process") =>
                  run[r].canvas[1] >= 1 /\ run[r].canvas[2] >= 1

====
